---- MODULE Spec2Model ----
(***************************************************************************)
(* Model of example.py: the funds-transfer operation transfer_funds and    *)
(* the retry executor run_transaction, run by independent callers (each on *)
(* its own session) against one store.                                     *)
(*                                                                         *)
(* The session (conn) is the transaction-capable session of the store:     *)
(* statements of a session act on its uncommitted writes (overlay) laid    *)
(* over the committed rows (store); a rollback discards uncommitted        *)
(* writes, a commit installs them.  conn is a connection of psycopg 3      *)
(* (line 15): the block conn.transaction() opens the session's transaction *)
(* or, with one in progress, a savepoint of it, and conn.rollback() is     *)
(* refused inside the block.                                               *)
(* The store serializes transactions by refusing, with a                   *)
(* SerializationFailure, a statement that touches a row another open       *)
(* transaction has read or written in a conflicting way; it may also raise *)
(* a SerializationFailure or another psycopg.Error at any statement, the   *)
(* ones that open and close the block of line 81 included.                 *)
(***************************************************************************)
EXTENDS Integers, FiniteSets, Sequences, TLC

\* ---------------------------------------------------------------- bounds
MaxRetries == 2      \* largest max_retries a caller passes
MaxBalance == 2      \* largest initial balance of an account
MaxAmount  == 2      \* largest amount a caller transfers
MaxCalls   == 2      \* run_transaction invocations per session
JitterSteps == 2     \* values random.random() takes: r / JitterSteps, r in 0..JitterSteps-1

Sessions == {"s1", "s2"}
Accounts == {"A", "B"}          \* ids of the rows of table accounts
RetryChoices == 0..MaxRetries
AmountChoices == 1..MaxAmount

\* outcome the store gives a statement, before its own conflict detection
Faults == {"ok", "conflict", "error"}

VARIABLES
    store,         \* committed rows: account id -> balance
    overlay,       \* per session: uncommitted writes, written id -> balance
    reads,         \* per session: ids read by the open transaction
    pc,            \* per session: position in run_transaction / transfer_funds
    frm, to, amount, max_retries,   \* per session: arguments of the call
    retry,         \* per session: loop variable of line 82
    from_balance,  \* per session: local of transfer_funds
    err,           \* per session: exception in flight or propagated
    left,          \* per session: run_transaction invocations still to come
    faults,        \* outcomes the store gives a statement of its own accord
    nattempts,     \* per session: invocations of op in this call
    nconflicts,    \* per session: SerializationFailures caught in this call
    nrollbacks,    \* per session: conn.rollback() calls in this call
    nsleeps,       \* per session: time.sleep() calls in this call
    txend,         \* per session: how the transaction scope ended
    discarded,     \* per session: ids whose uncommitted writes the last rollback dropped
    before,        \* per session: the committed rows when the call began
    initial,       \* the committed rows at the start
    ledger,        \* the store as whole committed transfers would leave it
    sleep_seconds, \* per session: local of line 97, in units of 0.05 / JitterSteps s
    nfailed,       \* per session: calls in a row that ended in a non-conflict failure
    rowstart,      \* per session: the committed rows before the first call of that row
    wl,            \* per session: position in execute_workload / main
    savepoint      \* per session: how the block of line 81 was entered

vars == <<store, overlay, reads, pc, frm, to, amount, max_retries, retry,
          from_balance, err, left, faults, nattempts, nconflicts,
          nrollbacks, nsleeps, txend, discarded, before, initial, ledger,
          sleep_seconds, nfailed, rowstart, wl, savepoint>>

\* ------------------------------------------------------------ exceptions
NoError == [type |-> "None", args |-> <<>>]
Exc(t, a) == [type |-> t, args |-> a]

\* psycopg.errors.SerializationFailure is a psycopg.Error (line 16), and so
\* is the ProgrammingError with which conn refuses a call
IsPsycopgError(e) == e.type \in {"SerializationFailure", "Error", "ProgrammingError"}

\* the handler of line 90 written as except psycopg.Error
CaughtAsRetryAnyError(e) == IsPsycopgError(e)

\* line 90: except SerializationFailure
CaughtAsRetry(e) == e.type = "SerializationFailure"

\* --------------------------------------------------------------- session
EmptyOverlay == [x \in {} |-> 0]

\* the balance of row id as session s sees it
View(s, id) == IF id \in DOMAIN overlay[s] THEN overlay[s][id] ELSE store[id]

Write(ov, id, v) == [x \in (DOMAIN ov) \cup {id} |-> IF x = id THEN v ELSE ov[x]]

\* commit: the uncommitted writes become the committed rows
Install(st, ov) ==
    [x \in (DOMAIN st) \cup (DOMAIN ov) |-> IF x \in DOMAIN ov THEN ov[x] ELSE st[x]]

\* the store cannot serialize a read of id by s: another open transaction wrote it
ReadConflict(s, id) == \E t \in Sessions \ {s} : id \in DOMAIN overlay[t]

\* a store that serializes writes against writes only
WriteConflictWritesOnly(s, id) ==
    \E t \in Sessions \ {s} : id \in DOMAIN overlay[t]

\* the store cannot serialize a write of id by s: another open transaction
\* read or wrote it
WriteConflict(s, id) ==
    \E t \in Sessions \ {s} : id \in DOMAIN overlay[t] \/ id \in reads[t]

\* the row id exists in table accounts, as session s sees it
Exists(s, id) == id \in (DOMAIN store) \cup (DOMAIN overlay[s])

\* what a statement raises: the store's outcome f, or a SerializationFailure
\* when the statement conflicts with another open transaction
StmtError(f, conflict) ==
    IF f = "error" THEN Exc("Error", <<>>)
    ELSE IF f = "conflict" \/ conflict THEN Exc("SerializationFailure", <<>>)
    ELSE NoError

\* -------------------------------------------------------- transfer_funds
\* the check left out
NoFundsCheck(b, a) == FALSE

\* the check written with <=
InsufficientFundsOrEqual(b, a) == b <= a

\* line 54: if from_balance < amount
InsufficientFunds(b, a) == b < a

\* line 61: balance - amount
Debited(b, a) == b - a

\* the credit written with the sign of the debit
CreditedMinus(b, a) == b - a

\* line 65: balance + amount
Credited(b, a) == b + a

\* ------------------------------------------------------- run_transaction
\* the loop running one time too many
HasNextInclusive(r, m) == r <= m

\* line 82: range(1, max_retries + 1) yields a value after r (0: before the first)
HasNext(r, m) == r < m

\* line 95: conn.rollback() discards the uncommitted writes
Discard(ov) == EmptyOverlay

\* line 95: what conn.rollback() raises inside the block of line 81.  psycopg 3
\* refuses the call there ("Explicit rollback() forbidden within a Transaction
\* context") before it sends anything to the store
RollbackRaises == Exc("ProgrammingError", <<>>)

\* lines 90-95: the handler of a SerializationFailure starts with conn.rollback()
OnConflict == "rollback"

\* lines 95-99: after conn.rollback() the handler goes on to the sleep,
\* whatever retry is
AfterRollback(r, m) == "sleep"

\* the delay without the + 0.5 of the jitter
BackoffNoHalf(n, r) == (2 ^ n) * (2 * r)

\* line 97: (2**retry) * 0.1 * (random.random() + 0.5) with random.random() =
\* r / JitterSteps, in units of 0.05 / JitterSteps s (0.1 s is 2 * JitterSteps
\* units)
Backoff(n, r) == (2 ^ n) * (2 * r + JitterSteps)

\* line 104: raise e
Reraised(e) == e

\* a block that commits however it is left
ScopeExitAlwaysCommit(e) == "commit"

\* lines 79-81: leaving the transaction block commits, or rolls back when
\* leaving with an exception
ScopeExit(e) == IF e = NoError THEN "commit" ELSE "rollback"

\* the rows after whole transfer f -> t of a
ApplyTransfer(st, f, t, a) ==
    [x \in DOMAIN st |-> st[x] - (IF x = f THEN a ELSE 0) + (IF x = t THEN a ELSE 0)]

Terminal == {"committed", "failed_fatal", "exhausted"}

\* the exception e leaves op(conn): lines 90 and 101 choose the handler
Raise(s, e) ==
    /\ err' = [err EXCEPT ![s] = e]
    /\ pc' = [pc EXCEPT ![s] = IF CaughtAsRetry(e) THEN OnConflict ELSE "abort"]
    /\ nconflicts' = [nconflicts EXCEPT ![s] = @ + (IF CaughtAsRetry(e) THEN 1 ELSE 0)]

\* the writes of ov that are not in sv: those a rollback to sv drops
Dropped(ov, sv) ==
    {x \in DOMAIN ov : x \notin DOMAIN sv \/ ov[x] # sv[x]}

\* the transaction block of line 81 is left with exception e (NoError:
\* normally).  Entered on an idle session it is the transaction: it commits,
\* or rolls back.  Entered with a transaction in progress it is a savepoint:
\* it commits nothing, and rolls back to the writes the session held when it
\* was entered.
Leave(s, e) ==
    /\ txend' = [txend EXCEPT ![s] = ScopeExit(e)]
    /\ IF savepoint[s].nested
       THEN /\ store' = store
            /\ overlay' = [overlay EXCEPT ![s] =
                              IF ScopeExit(e) = "commit" THEN @ ELSE savepoint[s].overlay]
            /\ discarded' = [discarded EXCEPT ![s] =
                                IF ScopeExit(e) = "commit" THEN {}
                                ELSE Dropped(overlay[s], savepoint[s].overlay)]
            /\ UNCHANGED reads
       ELSE /\ store' = IF ScopeExit(e) = "commit"
                        THEN Install(store, overlay[s]) ELSE store
            /\ discarded' = [discarded EXCEPT ![s] =
                                IF ScopeExit(e) = "commit" THEN {} ELSE DOMAIN overlay[s]]
            /\ overlay' = [overlay EXCEPT ![s] = EmptyOverlay]
            /\ reads' = [reads EXCEPT ![s] = {}]

\* an exception e raised inside the block of line 81 and outside the try of
\* lines 83-104 (by conn.rollback() in the handler of line 90, by the COMMIT
\* of the block exit) ends run_transaction: no handler of the loop catches
\* it, and the block is left with it
Fail(s, e) ==
    /\ err' = [err EXCEPT ![s] = e]
    /\ Leave(s, e)
    /\ nfailed' = [nfailed EXCEPT ![s] = @ + 1]
    /\ pc' = [pc EXCEPT ![s] = "failed_fatal"]

\* the COMMIT or RELEASE SAVEPOINT that the normal exit of the block of line 81
\* sends is answered with e: it is raised at line 81, outside the try.  A
\* failed COMMIT ends the transaction without its writes.  A failed RELEASE
\* SAVEPOINT restores nothing: the session keeps the writes of the block until
\* the enclosing transaction ends.
ExitFail(s, e) ==
    IF savepoint[s].nested
    THEN /\ err' = [err EXCEPT ![s] = e]
         /\ txend' = [txend EXCEPT ![s] = ScopeExit(e)]
         /\ nfailed' = [nfailed EXCEPT ![s] = @ + 1]
         /\ pc' = [pc EXCEPT ![s] = "failed_fatal"]
         /\ UNCHANGED <<store, overlay, discarded, reads>>
    ELSE Fail(s, e)

\* committed rows st, sessions without a transaction in progress
StoreFrom(st) ==
    /\ store = st
    /\ ledger = store
    /\ initial = store
    /\ before = [s \in Sessions |-> store]
    /\ discarded = [s \in Sessions |-> {}]
    /\ overlay = [s \in Sessions |-> EmptyOverlay]
    /\ reads = [s \in Sessions |-> {}]
    /\ frm = [s \in Sessions |-> "A"]
    /\ to = [s \in Sessions |-> "A"]
    /\ amount = [s \in Sessions |-> 1]
    /\ from_balance = [s \in Sessions |-> 0]
    /\ txend = [s \in Sessions |-> "none"]
    /\ nfailed = [s \in Sessions |-> 0]
    /\ rowstart = [s \in Sessions |-> store]
    /\ wl = [s \in Sessions |-> "none"]
    /\ savepoint = [s \in Sessions |-> [nested |-> FALSE, overlay |-> EmptyOverlay]]

\* the state before any call, with committed rows st
StartFrom(st) ==
    /\ StoreFrom(st)
    /\ sleep_seconds = [s \in Sessions |-> 0]
    /\ pc = [s \in Sessions |-> "idle"]
    /\ max_retries = [s \in Sessions |-> 0]
    /\ retry = [s \in Sessions |-> 0]
    /\ err = [s \in Sessions |-> NoError]
    /\ nattempts = [s \in Sessions |-> 0]
    /\ nconflicts = [s \in Sessions |-> 0]
    /\ nrollbacks = [s \in Sessions |-> 0]
    /\ nsleeps = [s \in Sessions |-> 0]

\* two accounts with any balances from 0 to MaxBalance
Start == \E st \in [Accounts -> 0..MaxBalance] : StartFrom(st)

\* one caller (section 1 of the design: sequential invocation from one caller),
\* a store that may fail any statement
Init ==
    /\ Start
    /\ left = [s \in Sessions |-> IF s = "s1" THEN MaxCalls ELSE 0]
    /\ faults = Faults

\* two independent callers, one invocation each, a store whose only failures
\* are the conflicts it detects
ConcInit ==
    /\ Start
    /\ left = [s \in Sessions |-> 1]
    /\ faults = {"ok"}

\* lines 72-81: run_transaction(conn, lambda: transfer_funds(conn, f, t, a), m)
\* is entered and the transaction block opens: conn.transaction() sends BEGIN
\* or, with a transaction in progress, SAVEPOINT.  When the store answers that
\* with an error the block is not entered and the error leaves
\* run_transaction before any attempt.
Enter(s, f, t, a, m) ==
    /\ pc[s] \in {"idle"} \cup Terminal
    /\ frm' = [frm EXCEPT ![s] = f]
    /\ to' = [to EXCEPT ![s] = t]
    /\ amount' = [amount EXCEPT ![s] = a]
    /\ max_retries' = [max_retries EXCEPT ![s] = m]
    /\ \E b \in faults :
         LET e == StmtError(b, FALSE) IN
         /\ err' = [err EXCEPT ![s] = e]
         /\ pc' = [pc EXCEPT ![s] = IF e = NoError THEN "loop" ELSE "failed_fatal"]
         /\ nfailed' = [nfailed EXCEPT ![s] =
                           (IF pc[s] = "failed_fatal" THEN @ ELSE 0)
                             + (IF e = NoError THEN 0 ELSE 1)]
    /\ retry' = [retry EXCEPT ![s] = 0]
    /\ from_balance' = [from_balance EXCEPT ![s] = 0]
    /\ sleep_seconds' = [sleep_seconds EXCEPT ![s] = 0]
    /\ nattempts' = [nattempts EXCEPT ![s] = 0]
    /\ nconflicts' = [nconflicts EXCEPT ![s] = 0]
    /\ nrollbacks' = [nrollbacks EXCEPT ![s] = 0]
    /\ nsleeps' = [nsleeps EXCEPT ![s] = 0]
    /\ txend' = [txend EXCEPT ![s] = "none"]
    /\ discarded' = [discarded EXCEPT ![s] = {}]
    /\ before' = [before EXCEPT ![s] = store]
    /\ rowstart' = [rowstart EXCEPT ![s] = IF pc[s] = "failed_fatal" THEN @ ELSE store]
    /\ savepoint' = [savepoint EXCEPT ![s] =
                        [nested |-> overlay[s] # EmptyOverlay \/ reads[s] # {},
                         overlay |-> overlay[s]]]
    /\ UNCHANGED <<store, overlay, reads, faults, initial, ledger>>

\* a caller invokes run_transaction with stored account ids and a positive amount
Call(s) ==
    /\ left[s] > 0
    /\ wl[s] = "none"
    /\ \E f \in Accounts, t \in Accounts, a \in AmountChoices, m \in RetryChoices :
         Enter(s, f, t, a, m)
    /\ left' = [left EXCEPT ![s] = @ - 1]
    /\ UNCHANGED wl

\* lines 82-84: the loop yields the next retry and op(conn) is invoked
NextAttempt(s) ==
    /\ pc[s] = "loop"
    /\ HasNext(retry[s], max_retries[s])
    /\ retry' = [retry EXCEPT ![s] = @ + 1]
    /\ nattempts' = [nattempts EXCEPT ![s] = @ + 1]
    /\ from_balance' = [from_balance EXCEPT ![s] = 0]
    /\ err' = [err EXCEPT ![s] = NoError]
    /\ pc' = [pc EXCEPT ![s] = "select"]
    /\ UNCHANGED <<store, overlay, reads, frm, to, amount, max_retries, left,
                   faults, nconflicts, nrollbacks, nsleeps, txend, ledger,
                   discarded, before, initial, sleep_seconds, nfailed,
                   rowstart, wl, savepoint>>

\* lines 52-57: read the source balance and check it
Select(s) ==
    /\ pc[s] = "select"
    /\ \E f \in faults :
         LET e == StmtError(f, Exists(s, frm[s]) /\ ReadConflict(s, frm[s])) IN
         IF e # NoError
         THEN /\ Raise(s, e)
              /\ UNCHANGED <<reads, from_balance>>
         ELSE IF ~Exists(s, frm[s])
         THEN \* fetchone() is None: None[0]
              /\ Raise(s, Exc("TypeError", <<>>))
              /\ UNCHANGED <<reads, from_balance>>
         ELSE /\ reads' = [reads EXCEPT ![s] = @ \cup {frm[s]}]
              /\ from_balance' = [from_balance EXCEPT ![s] = View(s, frm[s])]
              /\ IF InsufficientFunds(View(s, frm[s]), amount[s])
                 THEN Raise(s, Exc("RuntimeError",
                                   <<frm[s], View(s, frm[s]), amount[s]>>))
                 ELSE /\ pc' = [pc EXCEPT ![s] = "debit"]
                      /\ UNCHANGED <<err, nconflicts>>
    /\ UNCHANGED <<store, overlay, frm, to, amount, max_retries, retry, left,
                   faults, nattempts, nrollbacks, nsleeps, txend, ledger,
                   discarded, before, initial, sleep_seconds, nfailed,
                   rowstart, wl, savepoint>>

\* the UPDATE of row id by session s to value v(balance), then position nxt
Update(s, id, v, nxt) ==
    /\ \E f \in faults :
         LET e == StmtError(f, Exists(s, id) /\ WriteConflict(s, id)) IN
         IF e # NoError
         THEN /\ Raise(s, e)
              /\ UNCHANGED overlay
         ELSE /\ overlay' = [overlay EXCEPT ![s] =
                               IF Exists(s, id) THEN Write(@, id, v) ELSE @]
              /\ pc' = [pc EXCEPT ![s] = nxt]
              /\ UNCHANGED <<err, nconflicts>>
    /\ UNCHANGED <<store, reads, frm, to, amount, max_retries, retry,
                   from_balance, left, faults, nattempts, nrollbacks, nsleeps,
                   txend, ledger, discarded, before, initial, sleep_seconds,
                   nfailed, rowstart, wl, savepoint>>

\* lines 60-63: UPDATE accounts SET balance = balance - amount WHERE id = frm
Debit(s) ==
    /\ pc[s] = "debit"
    /\ Update(s, frm[s],
              IF Exists(s, frm[s]) THEN Debited(View(s, frm[s]), amount[s]) ELSE 0,
              "credit")

\* lines 64-67: UPDATE accounts SET balance = balance + amount WHERE id = to
Credit(s) ==
    /\ pc[s] = "credit"
    /\ Update(s, to[s],
              IF Exists(s, to[s]) THEN Credited(View(s, to[s]), amount[s]) ELSE 0,
              "return")

\* lines 88, 81: op returned, return leaves the transaction block normally.
\* Its exit sends the COMMIT or, for a savepoint, the RELEASE SAVEPOINT, which
\* the store may answer with an error: that is raised outside the try.
Commit(s) ==
    /\ pc[s] = "return"
    /\ \E f \in faults :
         LET e == StmtError(f, FALSE) IN
         IF e = NoError
         THEN /\ Leave(s, NoError)
              /\ ledger' = IF ScopeExit(NoError) = "commit" /\ ~savepoint[s].nested
                           THEN ApplyTransfer(ledger, frm[s], to[s], amount[s])
                           ELSE ledger
              /\ pc' = [pc EXCEPT ![s] = "committed"]
              /\ UNCHANGED <<err, nfailed>>
         ELSE /\ ExitFail(s, e)
              /\ UNCHANGED ledger
    /\ UNCHANGED <<frm, to, amount, max_retries, retry, from_balance,
                   left, faults, nattempts, nconflicts, nrollbacks, nsleeps,
                   before, initial, sleep_seconds, rowstart, wl, savepoint>>

\* lines 90-96: the SerializationFailure is caught, conn.rollback(): were it
\* to return, the handler would go on to line 97; it raises inside the handler
Rollback(s) ==
    /\ pc[s] = "rollback"
    /\ LET e == RollbackRaises IN
         IF e = NoError
         THEN /\ overlay' = [overlay EXCEPT ![s] = Discard(@)]
              /\ discarded' = [discarded EXCEPT ![s] = DOMAIN overlay[s]]
              /\ reads' = [reads EXCEPT ![s] = {}]
              /\ nrollbacks' = [nrollbacks EXCEPT ![s] = @ + 1]
              /\ pc' = [pc EXCEPT ![s] = AfterRollback(retry[s], max_retries[s])]
              /\ UNCHANGED <<store, err, txend, nfailed>>
         ELSE /\ Fail(s, e)
              /\ UNCHANGED nrollbacks
    /\ UNCHANGED <<frm, to, amount, max_retries, retry, from_balance,
                   left, faults, nattempts, nconflicts, nsleeps,
                   ledger, before, initial, sleep_seconds, rowstart,
                   wl, savepoint>>

\* lines 97-99: time.sleep(sleep_seconds), then back to the loop head
Sleep(s) ==
    /\ pc[s] = "sleep"
    /\ \E r \in 0..(JitterSteps - 1) :
         sleep_seconds' = [sleep_seconds EXCEPT ![s] = Backoff(retry[s], r)]
    /\ nsleeps' = [nsleeps EXCEPT ![s] = @ + 1]
    /\ pc' = [pc EXCEPT ![s] = "loop"]
    /\ UNCHANGED <<store, overlay, reads, frm, to, amount, max_retries, retry,
                   from_balance, err, left, faults, nattempts, nconflicts,
                   nrollbacks, txend, ledger, discarded, before, initial,
                   nfailed, rowstart, wl, savepoint>>

\* lines 106-107: the loop is over, raise ValueError; the block is left with it
Exhaust(s) ==
    /\ pc[s] = "loop"
    /\ ~HasNext(retry[s], max_retries[s])
    /\ err' = [err EXCEPT ![s] = Exc("ValueError", <<max_retries[s]>>)]
    /\ Leave(s, Exc("ValueError", <<max_retries[s]>>))
    /\ pc' = [pc EXCEPT ![s] = "exhausted"]
    /\ UNCHANGED <<frm, to, amount, max_retries, retry, from_balance, left,
                   faults, nattempts, nconflicts, nrollbacks, nsleeps, ledger,
                   before, initial, sleep_seconds, nfailed, rowstart, wl, savepoint>>

\* lines 101-104 (raise e) or no handler: the error leaves the loop and the
\* transaction block
Abort(s) ==
    /\ pc[s] = "abort"
    /\ err' = [err EXCEPT ![s] = IF IsPsycopgError(@) THEN Reraised(@) ELSE @]
    /\ Leave(s, err[s])
    /\ nfailed' = [nfailed EXCEPT ![s] = @ + 1]
    /\ pc' = [pc EXCEPT ![s] = "failed_fatal"]
    /\ UNCHANGED <<frm, to, amount, max_retries, retry, from_balance, left,
                   faults, nattempts, nconflicts, nrollbacks, nsleeps, ledger,
                   before, initial, sleep_seconds, rowstart, wl, savepoint>>

\* line 82: the for statement yields the next retry, or is over
Loop(s) ==
    IF HasNext(retry[s], max_retries[s]) THEN NextAttempt(s) ELSE Exhaust(s)

\* lines 90-99: the handler of a SerializationFailure, conn.rollback() and
\* then the sleep
Handler(s) ==
    IF pc[s] = "sleep" THEN Sleep(s) ELSE Rollback(s)

\* the steps of the code once run_transaction is entered: synchronous,
\* blocking calls that return (the statements, the sleep)
Run(s) ==
    \/ Loop(s)
    \/ Select(s)
    \/ Debit(s)
    \/ Credit(s)
    \/ Commit(s)
    \/ Handler(s)
    \/ Abort(s)

Next ==
    \E s \in Sessions :
        \/ Call(s)
        \/ Run(s)

Spec == Init /\ [][Next]_vars

FairSpec == Init /\ [][Next]_vars /\ \A s \in Sessions : WF_vars(Run(s))

ConcSpec == ConcInit /\ [][Next]_vars

\* ------------------------------------------------ the delay of line 97 alone
\* the handler of line 90 at line 97, for every value the loop of line 82 gives
\* retry (1..max_retries) and every max_retries >= 1: the inputs of the
\* expression of line 97, besides the value of random.random() that Sleep
\* draws.  sleep_seconds still holds the delay of the attempt before, and is
\* unset (0) on the first.
BackoffInit ==
    /\ \E st \in [Accounts -> 0..MaxBalance] : StoreFrom(st)
    /\ max_retries \in [Sessions -> 1..MaxRetries]
    /\ retry \in [Sessions -> 1..MaxRetries]
    /\ \A s \in Sessions : retry[s] <= max_retries[s]
    /\ pc = [s \in Sessions |-> "sleep"]
    /\ err = [s \in Sessions |-> Exc("SerializationFailure", <<>>)]
    /\ nattempts = retry
    /\ nconflicts = retry
    /\ nrollbacks = retry
    /\ nsleeps = [s \in Sessions |-> retry[s] - 1]
    /\ \E r \in [Sessions -> 0..(JitterSteps - 1)] :
         sleep_seconds = [s \in Sessions |->
                             IF retry[s] = 1 THEN 0 ELSE Backoff(retry[s] - 1, r[s])]
    /\ left = [s \in Sessions |-> 0]
    /\ faults = Faults

BackoffNext == \E s \in Sessions : Sleep(s)

BackoffSpec == BackoffInit /\ [][BackoffNext]_vars

\* ------------------------------------------------- execute_workload, main
CreatedBalance1 == 1000    \* line 28: balance of the first row upserted
CreatedBalance2 == 250     \* line 28: balance of the second row upserted
TransferAmount == 100      \* line 164: amount = 100
DefaultRetries == 3        \* line 72: max_retries=3
Workloads == 3             \* lines 136, 145, 149: calls of execute_workload

\* the handlers of lines 170-178 with psycopg.Error swallowed like ValueError
OnFailureSwallowErrors(e) ==
    IF e.type = "ValueError" \/ IsPsycopgError(e) THEN "swallow" ELSE "propagate"

\* lines 170-178: ValueError is logged and swallowed, psycopg.Error is logged
\* and re-raised, any other exception has no handler
OnFailure(e) ==
    IF e.type = "ValueError" THEN "swallow"
    ELSE IF IsPsycopgError(e) THEN "reraise"
    ELSE "propagate"

\* what the workload steps leave alone
WorkFrame ==
    UNCHANGED <<pc, frm, to, amount, max_retries, retry, from_balance, faults,
                nattempts, nconflicts, nrollbacks, nsleeps, txend, discarded,
                before, initial, ledger, sleep_seconds, nfailed, rowstart,
                savepoint>>

\* the exception e leaves execute_workload: the connection block of line 157
\* is left with it, which rolls back what is uncommitted
WorkRaise(s, e) ==
    /\ err' = [err EXCEPT ![s] = e]
    /\ wl' = [wl EXCEPT ![s] = "raised"]
    /\ overlay' = [overlay EXCEPT ![s] = EmptyOverlay]
    /\ reads' = [reads EXCEPT ![s] = {}]

\* a statement of the workload outside run_transaction: it raises, or leaves
\* the uncommitted writes ov and the reads rd, at position nxt
WorkStmt(s, ov, rd, nxt) ==
    /\ \E f \in faults :
         LET e == StmtError(f, FALSE) IN
         IF e # NoError
         THEN WorkRaise(s, e)
         ELSE /\ overlay' = [overlay EXCEPT ![s] = ov]
              /\ reads' = [reads EXCEPT ![s] = rd]
              /\ wl' = [wl EXCEPT ![s] = nxt]
              /\ UNCHANGED err
    /\ UNCHANGED <<store, left>>
    /\ WorkFrame

\* what get_id_token and the use of its result raise when they fail.
\* requests.post (line 186): on the url MissingSchema, InvalidSchema or
\* InvalidURL, on credentials that latin-1 cannot encode UnicodeError, on
\* an argument it rejects ValueError, on a CA bundle or certificate file
\* that is missing OSError, on the exchange ConnectionError,
\* SSLError, ProxyError, Timeout, TooManyRedirects, ChunkedEncodingError or
\* ContentDecodingError.  json.loads (line 187): JSONDecodeError, and
\* RecursionError on a body nested too deep.  ["id_token"] and
\* ["refresh_token"] (lines 131, 132, 141): KeyError on an object without the
\* key, TypeError on a body that is no object.  The concatenation of line
\* 138: TypeError on a refresh_token that is no string.  None is a
\* psycopg.Error; each is an Exception, caught at line 151.
TokenErrors ==
    {"MissingSchema", "InvalidSchema", "InvalidURL", "UnicodeError",
     "ValueError", "OSError", "ConnectionError", "SSLError", "ProxyError", "Timeout",
     "TooManyRedirects", "ChunkedEncodingError", "ContentDecodingError",
     "JSONDecodeError", "RecursionError", "KeyError", "TypeError"}

\* with n workloads to come: the workloads of lines 136 and 145 are preceded
\* by a token request (lines 130-132, 138-141), the last one (line 149) is not
NeedsToken(n) == n > 1

\* lines 130-132, 138-141, 185-187: the token request before a workload
GetToken(s) ==
    /\ wl[s] = "none"
    /\ left[s] > 0
    /\ NeedsToken(left[s])
    /\ \/ /\ wl' = [wl EXCEPT ![s] = "token"]
          /\ UNCHANGED err
       \/ \E t \in TokenErrors :
            /\ err' = [err EXCEPT ![s] = Exc(t, <<>>)]
            /\ wl' = [wl EXCEPT ![s] = "raised"]
    /\ UNCHANGED <<store, overlay, reads, left>>
    /\ WorkFrame

\* lines 136-149, 157-159: main calls execute_workload, which connects; the
\* connection may fail with a psycopg.Error
Connect(s) ==
    /\ \/ wl[s] = "token"
       \/ wl[s] = "none" /\ left[s] > 0 /\ ~NeedsToken(left[s])
    /\ \E f \in faults \ {"conflict"} :
         /\ err' = [err EXCEPT ![s] = StmtError(f, FALSE)]
         /\ wl' = [wl EXCEPT ![s] = IF f = "ok" THEN "connected" ELSE "raised"]
    /\ UNCHANGED <<store, overlay, reads, left>>
    /\ WorkFrame

\* lines 160, 20-31: UPSERT of two rows with new ids (here "A" and "B"); no
\* commit follows, the rows are uncommitted writes of the session
CreateAccounts(s) ==
    /\ wl[s] = "connected"
    /\ WorkStmt(s, Write(Write(overlay[s], "A", CreatedBalance1), "B", CreatedBalance2),
                reads[s], "created")

\* lines 161 and 180, 41-45: SELECT id, balance FROM accounts
PrintBalances(s, at, nxt) ==
    /\ wl[s] = at
    /\ WorkStmt(s, overlay[s],
                reads[s] \cup (DOMAIN store) \cup (DOMAIN overlay[s]), nxt)

\* lines 164-169: fromId is the first id created, toId the second
WorkCall(s) ==
    /\ wl[s] = "printed"
    /\ Enter(s, "A", "B", TransferAmount, DefaultRetries)
    /\ wl' = [wl EXCEPT ![s] = "running"]
    /\ UNCHANGED left

\* lines 168-178: run_transaction has returned or raised
Handle(s) ==
    /\ wl[s] = "running"
    /\ pc[s] \in Terminal
    /\ IF err[s] = NoError \/ OnFailure(err[s]) = "swallow"
       THEN /\ wl' = [wl EXCEPT ![s] = "print2"]
            /\ UNCHANGED <<err, overlay, reads>>
       ELSE WorkRaise(s, err[s])
    /\ UNCHANGED <<store, left>>
    /\ WorkFrame

\* lines 182, 34-38, 157: DELETE FROM accounts, then the connection block is
\* left normally (commit) and execute_workload returns to main
DeleteAccounts(s) ==
    /\ wl[s] = "delete"
    /\ \E f \in faults :
         LET e == StmtError(f, FALSE) IN
         IF e # NoError
         THEN /\ WorkRaise(s, e)
              /\ UNCHANGED <<store, left>>
         ELSE /\ store' = EmptyOverlay
              /\ overlay' = [overlay EXCEPT ![s] = EmptyOverlay]
              /\ reads' = [reads EXCEPT ![s] = {}]
              /\ wl' = [wl EXCEPT ![s] = "none"]
              /\ left' = [left EXCEPT ![s] = @ - 1]
              /\ UNCHANGED err
    /\ WorkFrame

\* lines 151-154: except Exception in main: log "database connection failed"
\* and return
MainExcept(s) ==
    /\ wl[s] = "raised"
    /\ wl' = [wl EXCEPT ![s] = "stopped"]
    /\ UNCHANGED <<store, overlay, reads, err, left>>
    /\ WorkFrame

\* main on a table without rows, a store that may fail any statement
WorkInit ==
    /\ StartFrom(EmptyOverlay)
    /\ left = [s \in Sessions |-> IF s = "s1" THEN Workloads ELSE 0]
    /\ faults = Faults

WorkNext ==
    \E s \in Sessions :
        \/ GetToken(s)
        \/ Connect(s)
        \/ CreateAccounts(s)
        \/ PrintBalances(s, "created", "printed")
        \/ WorkCall(s)
        \/ Run(s)
        \/ Handle(s)
        \/ PrintBalances(s, "print2", "delete")
        \/ DeleteAccounts(s)
        \/ MainExcept(s)

WorkSpec == WorkInit /\ [][WorkNext]_vars

\* ----------------------------------------- calls with arguments of any kind
\* ids a caller may pass: those of the stored rows and one that matches no row
AnyIds == Accounts \cup {"X"}

\* amounts a caller may pass: also zero and negative ones
AnyAmounts == (0 - 1)..MaxAmount

\* values a caller may pass for max_retries: also zero and negative ones
AnyRetries == (0 - 1)..MaxRetries

\* lines 72, 48: neither run_transaction nor transfer_funds checks its arguments
CallAny(s) ==
    /\ left[s] > 0
    /\ wl[s] = "none"
    /\ \E f \in AnyIds, t \in AnyIds, a \in AnyAmounts, m \in AnyRetries :
         Enter(s, f, t, a, m)
    /\ left' = [left EXCEPT ![s] = @ - 1]
    /\ UNCHANGED wl

AnyNext ==
    \E s \in Sessions :
        \/ CallAny(s)
        \/ Run(s)

\* one caller, one invocation with arguments of any kind, a store that may
\* fail any statement
AnyInit ==
    /\ Start
    /\ left = [s \in Sessions |-> IF s = "s1" THEN 1 ELSE 0]
    /\ faults = Faults

AnySpec == AnyInit /\ [][AnyNext]_vars

\* ------------------------------------------------------------- the claims
Running(s) == pc[s] \notin ({"idle"} \cup Terminal)

\* C1 - Retry bound: with max_retries >= 1, op is never invoked more than
\* max_retries times; a call that invoked op and all of whose invocations of
\* op raised a SerializationFailure ends only as exhausted, after exactly
\* max_retries invocations, with ValueError(max_retries) and not with the
\* conflict error; and a call ends exhausted only that way.
C1_RetryBound ==
    \A s \in Sessions :
        max_retries[s] >= 1 =>
            /\ nattempts[s] <= max_retries[s]
            /\ (pc[s] \in Terminal /\ nattempts[s] >= 1
                  /\ nconflicts[s] = nattempts[s]) =>
                   /\ pc[s] = "exhausted"
                   /\ nattempts[s] = max_retries[s]
                   /\ err[s] = Exc("ValueError", <<max_retries[s]>>)
            /\ pc[s] = "exhausted" =>
                   /\ nconflicts[s] = max_retries[s]
                   /\ nattempts[s] = max_retries[s]

\* the first conflict ended the call: conn.rollback() was refused, op was
\* invoked once of the MaxRetries times, and the error is not the ValueError
C1_Witness ==
    /\ pc["s1"] = "failed_fatal"
    /\ max_retries["s1"] = MaxRetries
    /\ nattempts["s1"] = 1
    /\ nconflicts["s1"] = 1
    /\ nrollbacks["s1"] = 0
    /\ err["s1"] = Exc("ProgrammingError", <<>>)

\* C2 - Eventual success: a conflict on an invocation before the last does not
\* end the call (the next invocation follows); when op has returned normally
\* on invocation k+1 after k < max_retries conflicts, the only step of the
\* call is the commit: no further attempt, no error, and the committed rows
\* become the rows before the call with exactly one transfer applied (the
\* writes of attempt k+1).
C2_Step ==
    \A s \in Sessions :
      /\ (pc[s] \in {"rollback", "sleep"} /\ retry[s] < max_retries[s]) =>
             pc'[s] \notin Terminal
      /\ pc[s] = "return" =>
            /\ nattempts[s] = nconflicts[s] + 1
            /\ nconflicts[s] < max_retries[s]
            /\ pc'[s] \in {"return", "committed"}
            /\ pc'[s] = "committed" =>
                   /\ store' = ApplyTransfer(before[s], frm[s], to[s], amount[s])
                   /\ err'[s] = NoError
                   /\ txend'[s] = "commit"
                   /\ nattempts'[s] = nattempts[s]
                   /\ overlay'[s] = EmptyOverlay

C2_EventualSuccess == [][C2_Step]_vars

\* op returned normally on the first invocation, the COMMIT of the block exit
\* raised a SerializationFailure: the call ended with it, nothing committed
C2_Witness ==
    /\ pc["s1"] = "failed_fatal"
    /\ err["s1"] = Exc("SerializationFailure", <<>>)
    /\ nattempts["s1"] = 1
    /\ nconflicts["s1"] = 0
    /\ frm["s1"] # to["s1"]
    /\ discarded["s1"] = {frm["s1"], to["s1"]}
    /\ store = before["s1"]

NonConflict(e) == e.type \in {"Error", "RuntimeError", "TypeError"}

\* C3 - Non-conflict failures are never retried: an error with which op fails
\* on attempt n >= 1 and that is not a SerializationFailure (another
\* psycopg.Error, the RuntimeError of the funds check, any other exception)
\* is followed by no invocation of op, no rollback-and-sleep of the handler,
\* and leaves run_transaction unchanged, with the transaction rolled back and
\* the committed rows as before.  (An error met before the first attempt, on
\* opening the block of line 81, is not a failure of op.)
C3_Step ==
    \A s \in Sessions :
        (NonConflict(err[s]) /\ nattempts[s] >= 1) =>
            /\ pc[s] \in {"abort", "failed_fatal"}
            /\ nsleeps[s] = nattempts[s] - 1
            /\ nrollbacks[s] = nattempts[s] - 1
            /\ pc[s] = "abort" =>
                   /\ pc'[s] \in {"abort", "failed_fatal"}
                   /\ err'[s] = err[s]
                   /\ nattempts'[s] = nattempts[s]
                   /\ nsleeps'[s] = nsleeps[s]
                   /\ pc'[s] = "failed_fatal" =>
                          /\ txend'[s] = "rollback"
                          /\ overlay'[s] = EmptyOverlay
                          /\ store' = before[s]
            /\ pc[s] = "failed_fatal" =>
                   /\ txend[s] = "rollback"
                   /\ left'[s] = left[s] => pc'[s] = "failed_fatal" /\ err'[s] = err[s]

C3_NoRetryOfNonConflict == [][C3_Step]_vars

\* op failed on its first attempt, after the debit, with a psycopg.Error that
\* is no SerializationFailure: the call ended with it, with attempts left
C3_Witness ==
    /\ pc["s1"] = "failed_fatal"
    /\ err["s1"].type = "Error"
    /\ max_retries["s1"] = MaxRetries
    /\ nattempts["s1"] = 1
    /\ nsleeps["s1"] = 0
    /\ txend["s1"] = "rollback"
    /\ discarded["s1"] # {}

\* C4 - Transfer postcondition: when transfer_funds has returned without error
\* for distinct stored accounts with balances b1 (source) and b2 (destination)
\* and an amount 0 < a <= b1, the session sees the source at b1 - a and the
\* destination at b2 + a, and their sum is b1 + b2.
C4_TransferPostcondition ==
    \A s \in Sessions :
        (/\ pc[s] = "return"
         /\ frm[s] # to[s]
         /\ Exists(s, frm[s]) /\ Exists(s, to[s])
         /\ amount[s] > 0) =>
            /\ from_balance[s] = before[s][frm[s]]
            /\ amount[s] <= from_balance[s]
            /\ View(s, frm[s]) = before[s][frm[s]] - amount[s]
            /\ View(s, to[s]) = before[s][to[s]] + amount[s]
            /\ View(s, frm[s]) + View(s, to[s])
                 = before[s][frm[s]] + before[s][to[s]]

C4_Witness ==
    /\ pc["s1"] = "return"
    /\ frm["s1"] = "A" /\ to["s1"] = "B"
    /\ amount["s1"] = 1
    /\ before["s1"]["A"] = 2 /\ before["s1"]["B"] = 1
    /\ View("s1", "A") = 1 /\ View("s1", "B") = 2

\* C5 - Insufficient funds: whenever the source balance read is below the
\* amount, transfer_funds raises the RuntimeError carrying the source id, the
\* balance and the amount, with no write issued (it never goes on to the debit),
\* and the balances the session sees are the committed ones, unchanged since
\* the call began.
C5_InsufficientFunds ==
    \A s \in Sessions :
        /\ pc[s] \in {"debit", "credit", "return"} =>
               ~(from_balance[s] < amount[s])
        /\ err[s].type = "RuntimeError" =>
               /\ from_balance[s] < amount[s]
               /\ err[s].args = <<frm[s], from_balance[s], amount[s]>>
               /\ from_balance[s] = before[s][frm[s]]
               /\ overlay[s] = EmptyOverlay
               /\ discarded[s] = {}
               /\ store = before[s]
               /\ txend[s] # "commit"

C5_Witness ==
    /\ pc["s1"] = "failed_fatal"
    /\ err["s1"] = Exc("RuntimeError", <<"B", 1, 2>>)
    /\ store = before["s1"]
    /\ store["B"] = 1

\* C6 - Atomicity: the committed rows are always the initial rows with whole
\* transfers applied (debit and credit together, or neither); when a call has
\* ended, by commit, fatal failure or exhaustion, nothing of it is pending and
\* the committed rows are those before the call, or those with both writes.
C6_Atomicity ==
    /\ store = ledger
    /\ \A s \in Sessions :
        pc[s] \in Terminal =>
            /\ overlay[s] = EmptyOverlay
            /\ store = IF pc[s] = "committed"
                       THEN ApplyTransfer(before[s], frm[s], to[s], amount[s])
                       ELSE before[s]

\* a failure between the debit write and the credit write ended the call
C6_Witness ==
    /\ pc["s1"] = "failed_fatal"
    /\ err["s1"].type = "Error"
    /\ frm["s1"] # to["s1"]
    /\ discarded["s1"] = {frm["s1"]}
    /\ store = before["s1"]

\* C7 - Non-negative balances: from balances >= 0, through any sequence of
\* calls with positive amounts, no committed balance and no balance a session
\* sees is negative.
C7_NonNegative ==
    /\ \A a \in DOMAIN store : store[a] >= 0
    /\ \A s \in Sessions : \A a \in DOMAIN store : View(s, a) >= 0

\* the second call of a sequence drained the source to 0
C7_Witness ==
    /\ left["s1"] = MaxCalls - 2
    /\ pc["s1"] = "committed"
    /\ frm["s1"] # to["s1"]
    /\ initial[frm["s1"]] = 2
    /\ store[frm["s1"]] = 0
    /\ amount["s1"] = 1

RECURSIVE SumOver(_, _)
SumOver(st, S) ==
    IF S = {} THEN 0
    ELSE LET x == CHOOSE y \in S : TRUE IN st[x] + SumOver(st, S \ {x})

Total(st) == SumOver(st, DOMAIN st)

\* C8 - Concurrent callers: with two callers interleaving read, debit and
\* credit, each on its own session, no committed balance is negative and the
\* committed total is conserved; two transfers from one source that both
\* commit are both covered by its balance.
C8_Concurrent ==
    /\ \A a \in DOMAIN store : store[a] >= 0
    /\ Total(store) = Total(initial)
    /\ \A s \in Sessions, t \in Sessions :
        (/\ s # t
         /\ pc[s] = "committed" /\ pc[t] = "committed"
         /\ frm[s] = frm[t]
         /\ to[s] # frm[s] /\ to[t] # frm[t]) =>
            initial[frm[s]] >= amount[s] + amount[t]

\* two transfers on a balance that covers one, both past the funds check:
\* one committed, the other was refused its debit by the store and ended
\* without a write
C8_Witness ==
    /\ pc["s1"] = "committed" /\ pc["s2"] = "failed_fatal"
    /\ frm["s1"] = frm["s2"]
    /\ to["s1"] # frm["s1"]
    /\ amount["s1"] = 2 /\ amount["s2"] = 2
    /\ initial[frm["s1"]] = 2
    /\ from_balance["s1"] = 2 /\ from_balance["s2"] = 2
    /\ nconflicts["s2"] = 1
    /\ store[frm["s1"]] = 0

\* C9 - Strict sequencing: an attempt is under way only when every earlier
\* attempt has been rolled back and slept for; it starts on a transaction that
\* holds no write and no read; after a conflict the rollback comes first, then
\* the sleep, then the loop head.
C9_Step ==
    \A s \in Sessions :
        /\ pc[s] \in {"select", "debit", "credit", "return"} =>
               /\ nconflicts[s] = nattempts[s] - 1
               /\ nrollbacks[s] = nattempts[s] - 1
               /\ nsleeps[s] = nattempts[s] - 1
        /\ pc[s] = "select" => overlay[s] = EmptyOverlay /\ reads[s] = {}
        /\ (CaughtAsRetry(err'[s]) /\ pc[s] \in {"select", "debit", "credit"}) =>
               pc'[s] = "rollback"
        /\ pc[s] = "rollback" =>
               /\ nrollbacks[s] = nattempts[s] - 1
               /\ nsleeps[s] = nattempts[s] - 1
               /\ pc'[s] \in {"rollback", "sleep"}
               /\ pc'[s] = "sleep" => overlay'[s] = EmptyOverlay
        /\ pc[s] = "sleep" =>
               /\ nrollbacks[s] = nattempts[s]
               /\ nsleeps[s] = nattempts[s] - 1
               /\ pc'[s] \in {"sleep", "loop"}
        /\ nattempts'[s] = nattempts[s] + 1 =>
               /\ nrollbacks[s] = nattempts[s]
               /\ nsleeps[s] = nattempts[s]
               /\ overlay[s] = EmptyOverlay

C9_StrictSequencing == [][C9_Step]_vars

\* the conflict met after the debit was followed by no rollback of the
\* handler and no sleep: conn.rollback() raised and the call ended
C9_Witness ==
    /\ pc["s1"] = "failed_fatal"
    /\ err["s1"] = Exc("ProgrammingError", <<>>)
    /\ nconflicts["s1"] = 1
    /\ nrollbacks["s1"] = 0 /\ nsleeps["s1"] = 0
    /\ discarded["s1"] # {}
    /\ max_retries["s1"] = 2

\* the state of the executor's state machine
State(s) ==
    CASE pc[s] = "idle" -> "NONE"
      [] pc[s] = "loop" /\ retry[s] = 0 -> "ATTEMPTING"
      [] pc[s] \in {"select", "debit", "credit", "return", "abort"} -> "ATTEMPTING"
      [] pc[s] \in {"rollback", "sleep"} -> "ROLLED_BACK_RETRYING"
      [] pc[s] = "loop" /\ retry[s] > 0 -> "ROLLED_BACK_RETRYING"
      [] pc[s] = "committed" -> "COMMITTED"
      [] pc[s] = "failed_fatal" -> "FAILED_FATAL"
      [] pc[s] = "exhausted" -> "EXHAUSTED"

Transitions ==
    { <<"ATTEMPTING", "COMMITTED">>,
      <<"ATTEMPTING", "ROLLED_BACK_RETRYING">>,
      <<"ROLLED_BACK_RETRYING", "ATTEMPTING">>,
      <<"ROLLED_BACK_RETRYING", "EXHAUSTED">>,
      <<"ATTEMPTING", "FAILED_FATAL">> }

C10_Step ==
    \A s \in Sessions :
        (left'[s] = left[s] /\ max_retries[s] >= 1) =>
            \/ State(s)' = State(s)
            \/ /\ <<State(s), State(s)'>> \in Transitions
               /\ State(s)' = "ATTEMPTING" => retry[s] < max_retries[s]
               /\ State(s)' = "EXHAUSTED" => retry[s] = max_retries[s]

C10_Cause ==
    \A s \in Sessions :
        max_retries[s] >= 1 =>
            /\ pc[s] = "committed" => err[s] = NoError /\ txend[s] = "commit"
            /\ (pc[s] = "failed_fatal" /\ nattempts[s] >= 1) => NonConflict(err[s])
            /\ pc[s] = "exhausted" =>
                   nconflicts[s] = nattempts[s] /\ nattempts[s] = max_retries[s]

\* C10 - State machine and termination: every call with max_retries >= 1 ends
\* in COMMITTED (op succeeded), FAILED_FATAL (non-conflict error) or EXHAUSTED
\* (every attempt ended in conflict); within a call only the five transitions
\* of the state machine are taken and none leaves a terminal state.
C10_StateMachine ==
    /\ [][C10_Step]_vars
    /\ []C10_Cause
    /\ \A s \in Sessions :
        (Running(s) /\ max_retries[s] >= 1) ~> (pc[s] \in Terminal)

\* a call went ATTEMPTING, ROLLED_BACK_RETRYING and then FAILED_FATAL: its
\* only failure was a conflict, with an attempt left
C10_Witness ==
    /\ State("s1") = "FAILED_FATAL"
    /\ max_retries["s1"] = 2
    /\ nconflicts["s1"] = 1
    /\ nattempts["s1"] = 1
    /\ IsPsycopgError(err["s1"])
    /\ txend["s1"] = "rollback"

\* C11 - Idempotence of failure: while run_transaction is invoked any number
\* of times in a row, each invocation ending in a non-conflict error (the
\* RuntimeError of the funds check, another psycopg.Error, ...), every stored
\* balance equals its value before the first of these invocations.
C11_FailureIdempotent ==
    \A s \in Sessions :
        (nfailed[s] >= 1 /\ pc[s] # "committed") =>
            /\ store = rowstart[s]
            /\ pc[s] = "failed_fatal" => store = before[s]

\* two invocations in a row failed, the second on the funds check
C11_Witness ==
    /\ nfailed["s1"] = 2
    /\ pc["s1"] = "failed_fatal"
    /\ err["s1"].type = "RuntimeError"
    /\ store = rowstart["s1"]

\* C12 - Backoff bounds and monotonicity: the delay slept after the conflict
\* on attempt n is (2^n) * 0.1 * j with j in [0.5, 1.5), so it lies in
\* [0.05 * 2^n, 0.15 * 2^n); the lower bound 0.05 * 2^n strictly increases
\* with n over attempts 1..max_retries.  In units of 0.05 / JitterSteps s,
\* 0.05 s is JitterSteps and 0.15 s is 3 * JitterSteps.
C12_BackoffBounds ==
    \A s \in Sessions :
        /\ (pc[s] = "loop" /\ nsleeps[s] >= 1) =>
               /\ retry[s] = nsleeps[s]
               /\ sleep_seconds[s] >= JitterSteps * (2 ^ retry[s])
               /\ sleep_seconds[s] < 3 * JitterSteps * (2 ^ retry[s])
               /\ Backoff(retry[s], 0) = JitterSteps * (2 ^ retry[s])
        /\ \A n \in 1..(max_retries[s] - 1) :
               Backoff(n, 0) < Backoff(n + 1, 0)

\* the second sleep of a call was the longest the jitter allows
C12_Witness ==
    /\ pc["s1"] = "loop"
    /\ nsleeps["s1"] = 2
    /\ max_retries["s1"] = 2
    /\ sleep_seconds["s1"] = Backoff(2, JitterSteps - 1)
    /\ sleep_seconds["s1"] > JitterSteps * (2 ^ 2)

\* C13 - Top-level handling in execute_workload: when run_transaction fails
\* with the ValueError of exhaustion, the workload swallows it and continues
\* with the second balance print and the account deletion; when it fails with
\* another store error (a psycopg.Error), that error is re-raised out of
\* execute_workload, and neither the second print nor the deletion runs: the
\* only step left is main's handler.
C13_Step ==
    \A s \in Sessions :
        /\ (wl[s] = "running" /\ pc[s] = "exhausted" /\ wl'[s] # wl[s]) =>
               /\ wl'[s] = "print2"
               /\ err'[s] = Exc("ValueError", <<max_retries[s]>>)
        /\ (wl[s] = "print2" /\ wl'[s] # wl[s] /\ err'[s] = err[s]) =>
               wl'[s] = "delete"
        /\ (wl[s] = "delete" /\ wl'[s] # wl[s] /\ err'[s] = err[s]) =>
               /\ wl'[s] = "none"
               /\ store' = EmptyOverlay
        /\ (wl[s] = "running" /\ pc[s] = "failed_fatal" /\ IsPsycopgError(err[s])
              /\ wl'[s] # wl[s]) =>
               /\ wl'[s] = "raised"
               /\ err'[s] = err[s]
        /\ wl[s] = "raised" =>
               /\ wl'[s] \in {"raised", "stopped"}
               /\ store' = store
        /\ wl[s] = "stopped" => wl'[s] = "stopped" /\ store' = store

C13_TopLevelHandling == [][C13_Step]_vars

\* a psycopg.Error with which the transfer of the second workload failed was
\* re-raised out of execute_workload: neither the second print nor the
\* deletion ran, main's handler did
C13_Witness ==
    /\ wl["s1"] = "stopped"
    /\ pc["s1"] = "failed_fatal"
    /\ err["s1"].type = "Error"
    /\ nattempts["s1"] = 1
    /\ left["s1"] = Workloads - 1
    /\ store = EmptyOverlay

\* the rows of table accounts as session s sees them
Rows(s) ==
    [id \in (DOMAIN store) \cup (DOMAIN overlay[s]) |-> View(s, id)]

\* C15 - Conservation over all account ids: when transfer_funds has returned
\* without error, whatever the ids (a destination that matches no row, source
\* and destination the same row), the sum of all balances the session sees is
\* the sum before the call, and so is the committed sum once the call has
\* committed.  Stated for the positive amounts a transfer is meant to have.
C15_Conservation ==
    \A s \in Sessions :
        amount[s] > 0 =>
            /\ pc[s] = "return" => Total(Rows(s)) = Total(before[s])
            /\ pc[s] = "committed" => Total(store) = Total(before[s])

\* a transfer to an id that matches no row committed: the amount left the table
C15_Witness ==
    /\ pc["s1"] = "committed"
    /\ frm["s1"] = "A" /\ to["s1"] = "X"
    /\ amount["s1"] = 1
    /\ store["A"] = before["s1"]["A"] - 1
    /\ Total(store) = Total(before["s1"]) - 1

\* C16 - Amount positivity: every transfer that has changed a balance has a
\* positive amount; a transfer_funds call with amount <= 0 does not raise the
\* source balance at the cost of the destination, and no balance a session
\* sees or the store holds becomes negative.
C16_AmountPositivity ==
    \A s \in Sessions :
        /\ (pc[s] \in {"credit", "return", "committed"} /\ Rows(s) # before[s]) =>
               amount[s] > 0
        /\ (pc[s] \in {"credit", "return"} /\ amount[s] <= 0) =>
               View(s, frm[s]) <= before[s][frm[s]]
        /\ (\A id \in DOMAIN before[s] : before[s][id] >= 0) =>
               /\ \A id \in DOMAIN store : store[id] >= 0
               /\ \A id \in DOMAIN Rows(s) : Rows(s)[id] >= 0

\* a transfer of -1 from A to B committed: A gained 1 and B, which held 0,
\* is at -1
C16_Witness ==
    /\ pc["s1"] = "committed"
    /\ frm["s1"] = "A" /\ to["s1"] = "B"
    /\ amount["s1"] = 0 - 1
    /\ before["s1"]["B"] = 0
    /\ store["A"] = before["s1"]["A"] + 1
    /\ store["B"] = 0 - 1

\* C17 - Backoff on the final attempt: every SerializationFailure caught, the
\* one on the last permitted attempt included, is followed by the rollback and
\* then the sleep before anything else; on exhaustion rollbacks and sleeps
\* both number max_retries, and the call becomes EXHAUSTED only from
\* ROLLED_BACK_RETRYING, at the loop head after the last sleep.
C17_Step ==
    \A s \in Sessions :
        max_retries[s] >= 1 =>
            /\ nconflicts'[s] = nconflicts[s] + 1 => pc'[s] = "rollback"
            /\ (pc[s] = "rollback" /\ pc'[s] # pc[s]) =>
                   /\ pc'[s] = "sleep"
                   /\ nrollbacks'[s] = retry[s]
            /\ (pc[s] = "sleep" /\ pc'[s] # pc[s]) =>
                   /\ pc'[s] = "loop"
                   /\ nsleeps'[s] = retry[s]
                   /\ sleep_seconds'[s] >= Backoff(retry[s], 0)
            /\ (pc'[s] = "exhausted" /\ pc[s] # "exhausted") =>
                   /\ State(s) = "ROLLED_BACK_RETRYING"
                   /\ pc[s] = "loop"
                   /\ retry[s] = max_retries[s]
                   /\ nrollbacks[s] = max_retries[s]
                   /\ nsleeps[s] = max_retries[s]
                   /\ sleep_seconds[s] >= Backoff(max_retries[s], 0)
                   /\ nrollbacks'[s] = max_retries[s]
                   /\ nsleeps'[s] = max_retries[s]

C17_BackoffOnFinalAttempt == [][C17_Step]_vars

\* the conflict on the last permitted attempt was followed by neither
\* rollback nor sleep, and the call did not end EXHAUSTED
C17_Witness ==
    /\ pc["s1"] = "failed_fatal"
    /\ max_retries["s1"] = 1
    /\ retry["s1"] = 1
    /\ nconflicts["s1"] = 1
    /\ nrollbacks["s1"] = 0 /\ nsleeps["s1"] = 0
    /\ err["s1"].type = "ProgrammingError"

\* the statement that a call with max_retries <= 0 always ends with the
\* ValueError: op never invoked, no rollback, no sleep, stored balances as
\* before the call
C18_AlwaysRetryExhausted ==
    \A s \in Sessions :
        (pc[s] # "idle" /\ max_retries[s] <= 0) =>
            /\ pc[s] \in {"loop", "exhausted"}
            /\ nattempts[s] = 0
            /\ nconflicts[s] = 0
            /\ nrollbacks[s] = 0
            /\ nsleeps[s] = 0
            /\ overlay[s] = EmptyOverlay
            /\ store = before[s]
            /\ pc[s] = "exhausted" =>
                   /\ err[s] = Exc("ValueError", <<max_retries[s]>>)
                   /\ txend[s] = "rollback"

\* C18 - Out-of-range retry bound: run_transaction accepts max_retries <= 0
\* unchecked; then op is never invoked, no rollback and no sleep happen, and
\* the stored balances are those before the call; the call ends with
\* ValueError(max_retries) once the block of line 81 is entered, and with the
\* psycopg.Error of the BEGIN when the block cannot be entered.
C18_OutOfRangeRetries ==
    \A s \in Sessions :
        (pc[s] # "idle" /\ max_retries[s] <= 0) =>
            /\ pc[s] \in {"loop", "exhausted", "failed_fatal"}
            /\ nattempts[s] = 0
            /\ nconflicts[s] = 0
            /\ nrollbacks[s] = 0
            /\ nsleeps[s] = 0
            /\ overlay[s] = EmptyOverlay
            /\ store = before[s]
            /\ pc[s] = "loop" => err[s] = NoError
            /\ pc[s] = "exhausted" =>
                   /\ err[s] = Exc("ValueError", <<max_retries[s]>>)
                   /\ txend[s] = "rollback"
            /\ pc[s] = "failed_fatal" =>
                   /\ IsPsycopgError(err[s])
                   /\ txend[s] = "none"

\* a call with max_retries = -1 ended with the ValueError
C18_Witness ==
    /\ pc["s1"] = "exhausted"
    /\ max_retries["s1"] = 0 - 1
    /\ err["s1"] = Exc("ValueError", <<0 - 1>>)
    /\ nattempts["s1"] = 0
    /\ store = before["s1"]

\* the two rows execute_workload created are present, as session s sees
\* them, with the balances they were created with
CreatedRows(s) ==
    /\ Exists(s, "A") /\ Exists(s, "B")
    /\ View(s, "A") = CreatedBalance1
    /\ View(s, "B") = CreatedBalance2

C19_Step ==
    \A s \in Sessions :
        /\ (wl[s] = "running" /\ pc[s] = "select") => CreatedRows(s)
        /\ (wl[s] = "running" /\ pc[s] = "rollback" /\ pc'[s] # pc[s]) =>
               /\ nrollbacks'[s] = nrollbacks[s] + 1
               /\ CreatedRows(s)'
               /\ pc'[s] \notin Terminal

\* C19 - Frame of the conflict rollback: after a conflict of the workload's
\* transfer the explicit rollback is performed and discards only the writes
\* of the failed attempt: the two rows execute_workload created on the session
\* are still present with the balances they were created with, the call goes
\* on to a next attempt, and every attempt reads the source balance from
\* those rows.
C19_RollbackFrame == [][C19_Step]_vars

\* after a conflict at the credit of the workload's transfer no rollback was
\* performed by the handler and no next attempt started: conn.rollback()
\* raised; the created rows are still there, the debit is gone
C19_Witness ==
    /\ wl["s1"] = "running"
    /\ pc["s1"] = "failed_fatal"
    /\ err["s1"] = Exc("ProgrammingError", <<>>)
    /\ nattempts["s1"] = 1
    /\ nconflicts["s1"] = 1
    /\ nrollbacks["s1"] = 0
    /\ discarded["s1"] = {"A"}
    /\ CreatedRows("s1")

====
